---- MODULE Spec2Model ----
(***************************************************************************)
(* The giveaway lifecycle engine of giveaways/models/giveaway.py: one      *)
(* Giveaway object, its entrant set and winner list, its start waiter, the *)
(* start() and end() transitions and the EndedGiveaway snapshot end()      *)
(* returns.                                                                *)
(***************************************************************************)
EXTENDS Integers, Sequences, FiniteSets, TLC

\* ---------------------------------------------------------------- bounds
NumMembers == 2          \* guild members 1..NumMembers
MaxTime == 3             \* the clock runs 0..MaxTime
MaxMsgId == 2            \* message ids the chat platform hands out
MaxMessages == 1         \* cap of the per-member message counter

\* ------------------------------------------------------ program constants
SleepInterval == 15      \* asyncio.sleep(15) in _wait_until_start

Members == 1..NumMembers
Roles == {1, 2}
NoMember == 0            \* Python None for a member / donor

\* Roles every guild member holds (the guild's state, fixed per member).
MemberRoles(m) ==
    IF m = 1 THEN {1}
    ELSE IF m = 2 THEN {2}
    ELSE IF m = 3 THEN {1, 2}
    ELSE {}

\* Reputation (Amari) data of every guild member.
AmariLevelOf(m) == IF m = 1 THEN 1 ELSE 0
AmariWeeklyOf(m) == IF m = 2 THEN 1 ELSE 0

\* Guild roles that carry an entry multiplier (guild settings).
MultiRoles == {2}

VARIABLES
    now,                \* datetime.now(tz=utc)
    starts_at,          \* self.starts_at
    ends_at,            \* self.ends_at
    amount_of_winners,  \* self.amount_of_winners
    requirements,       \* self.requirements
    flags,              \* self.flags
    _host,              \* self._host
    prize,              \* self.prize
    emoji,              \* self.emoji
    channel_id,         \* self.channel_id
    guild_id,           \* self.guild_id
    message_id,         \* self.message_id
    _entrants,          \* self._entrants
    _winners,           \* self._winners
    has_message_cache,  \* whether self._message_cache was created
    _message_cache,     \* self._message_cache
    cache,              \* active-event registry: message ids this event is filed under
    nextId,             \* next message id the chat platform hands out
    waiter,             \* the _wait_until_start task: [pc, wake]
    endPc,              \* where a running end() call is suspended
    endReason,          \* the reason argument of the end() call
    ended_record,       \* the EndedGiveaway end() returned
    selected,           \* end() has run winner selection (line 590)
    drawPool,           \* the list `entrants` end() handed to pick_winners
    amariUp,            \* the reputation service answers
    last                \* the last call made and its outcome

vars == <<now, starts_at, ends_at, amount_of_winners, requirements, flags, _host,
          prize, emoji, channel_id, guild_id,
          message_id, _entrants, _winners, has_message_cache, _message_cache,
          cache, nextId, waiter, endPc, endReason, ended_record, selected, drawPool,
          amariUp, last>>

\* --------------------------------------------------------------- values
\* Python's None where a string is expected
None == "None"

\* the defaults of GiveawayMeta.__init__ and from_json
DefaultPrize == "Giveaway prize"
DefaultEmoji == ":tada:"

\* ------------------------------------------------------------- utilities
RECURSIVE SetToSeq(_)
SetToSeq(S) ==
    IF S = {} THEN <<>>
    ELSE LET x == CHOOSE y \in S : \A z \in S : y <= z
         IN <<x>> \o SetToSeq(S \ {x})

Range(s) == {s[i] : i \in 1..Len(s)}

Min(S) == CHOOSE y \in S : \A z \in S : y <= z

\* Python values of two kinds that never compare equal: an int id and a
\* discord.Member carrying that id.
IntValue(x) == [tag |-> "int", id |-> x]
MemberValue(x) == [tag |-> "Member", id |-> x]

\* ------------------------------------------------------ derived properties
\* GiveawayMeta.started
started == now > starts_at

\* GiveawayMeta.ended
ended == now > ends_at

\* GiveawayMeta.entrants: the Member objects of the entrant ids
entrants == {MemberValue(x) : x \in _entrants}

\* Attributes a Giveaway instance has (instance fields, properties, methods
\* that start() and end() read).
GiveawayAttributes ==
    {"bot", "message_id", "channel_id", "guild_id", "prize", "requirements",
     "flags", "emoji", "amount_of_winners", "_entrants", "_winners", "_host",
     "starts_at", "ends_at", "cog", "guild", "channel", "message", "host",
     "winners", "entrants", "started", "ended", "jump_url", "duration", "json"}

\* ------------------------------------------------------------ requirements
NoRequirements ==
    [bypass |-> {}, blacklist |-> {}, required |-> {},
     amari_level |-> 0, amari_weekly |-> 0, messages |-> 0]

\* Requirements.null: no rule is configured
Null(req) ==
    /\ req.bypass = {} /\ req.blacklist = {} /\ req.required = {}
    /\ req.amari_level = 0 /\ req.amari_weekly = 0 /\ req.messages = 0

\* Key order of Requirements.as_role_dict, minus "bypass" (handled first).
RuleOrder == <<"blacklist", "required", "amari_level", "amari_weekly", "messages">>

Allow == [kind |-> "allow", reason |-> "", role |-> 0]
Reject(why, r) == [kind |-> "reject", reason |-> why, role |-> r]
Raise(what) == [kind |-> "raise", reason |-> what, role |-> 0]

\* (self.flags.donor or self.host).id, on an object with these flags and host
DonorOrHostOf(fl, host) == IF fl.donor # NoMember THEN fl.donor ELSE host

\* (self.flags.donor or self.host).id
DonorOrHost == DonorOrHostOf(flags, _host)

\* Variant of the Amari level lookup whose failure goes unnoticed.
LevelLookupSwallowed == FALSE

\* `except Exception as e: ... raise e` around bot.amari.get_user: the lookup
\* for the level rule fails when the service is down
LevelLookupFails == ~amariUp

\* One key of the loop `for key, value in requirements.items()` run on an
\* object with rule set req, with (cached) or without a _message_cache: the
\* verdict this key returns, or Allow when the key lets the member pass.
CheckRuleOn(req, cached, key, m) ==
    IF key = "blacklist" THEN
        IF req.blacklist \cap MemberRoles(m) # {}
        THEN Reject("blacklist", Min(req.blacklist \cap MemberRoles(m)))
        ELSE Allow
    ELSE IF key = "required" THEN
        IF req.required \ MemberRoles(m) # {}
        THEN Reject("required", Min(req.required \ MemberRoles(m)))
        ELSE Allow
    ELSE IF key = "amari_level" THEN
        IF req.amari_level = 0 THEN Allow
        ELSE IF LevelLookupFails THEN Raise("AmariError")
        ELSE IF AmariLevelOf(m) < req.amari_level
        THEN Reject("amari_level", 0) ELSE Allow
    ELSE IF key = "amari_weekly" THEN
        IF req.amari_weekly = 0 THEN Allow
        ELSE IF (IF amariUp THEN AmariWeeklyOf(m) ELSE 0) < req.amari_weekly
        THEN Reject("amari_weekly", 0) ELSE Allow
    ELSE \* "messages"
        IF req.messages = 0 THEN Allow
        ELSE IF ~cached THEN Raise("AttributeError")
        ELSE IF ~(_message_cache[m] >= req.messages)
        THEN Reject("messages", 0) ELSE Allow

\* The same key on the Giveaway itself
CheckRule(key, m) == CheckRuleOn(requirements, has_message_cache, key, m)

RECURSIVE CheckRulesOn(_, _, _, _)
CheckRulesOn(req, cached, i, m) ==
    IF i > Len(RuleOrder) THEN Allow
    ELSE LET v == CheckRuleOn(req, cached, RuleOrder[i], m)
         IN IF v.kind = "allow" THEN CheckRulesOn(req, cached, i + 1, m) ELSE v

CheckRules(i, m) == CheckRulesOn(requirements, has_message_cache, i, m)

\* Variant of verify_entry that knows no bypass roles.
VerifyEntryOnNoBypass(req, fl, host, cached, m) ==
    IF fl.no_donor /\ m = DonorOrHostOf(fl, host) THEN Reject("no_donor", 0)
    ELSE IF Null(req) THEN Allow
    ELSE CheckRulesOn(req, cached, 1, m)

\* Giveaway.verify_entry run on an object with these rules, flags and host
VerifyEntryOn(req, fl, host, cached, m) ==
    IF fl.no_donor /\ m = DonorOrHostOf(fl, host) THEN Reject("no_donor", 0)
    ELSE IF Null(req) THEN Allow
    ELSE IF req.bypass \cap MemberRoles(m) # {} THEN Allow
    ELSE CheckRulesOn(req, cached, 1, m)

\* The calls of bot.amari.get_user the rule loop makes for m from key i on: one
\* for each Amari rule that is set and reached
RECURSIVE LookupsFrom(_, _)
LookupsFrom(i, m) ==
    IF i > Len(RuleOrder) THEN 0
    ELSE (IF /\ RuleOrder[i] \in {"amari_level", "amari_weekly"}
             /\ requirements[RuleOrder[i]] # 0
          THEN 1 ELSE 0)
         + (IF CheckRule(RuleOrder[i], m).kind = "allow"
            THEN LookupsFrom(i + 1, m) ELSE 0)

\* The calls of bot.amari.get_user verify_entry makes for m
VerifyLookups(m) ==
    IF flags.no_donor /\ m = DonorOrHost THEN 0
    ELSE IF Null(requirements) THEN 0
    ELSE IF requirements.bypass \cap MemberRoles(m) # {} THEN 0
    ELSE LookupsFrom(1, m)

\* Variant of verify_entry that looks at the bypass roles before the donor
\* exclusion.
VerifyEntryBypassFirst(m) ==
    IF ~Null(requirements) /\ requirements.bypass \cap MemberRoles(m) # {}
    THEN Allow
    ELSE IF flags.no_donor /\ m = DonorOrHost THEN Reject("no_donor", 0)
    ELSE IF Null(requirements) THEN Allow
    ELSE CheckRules(1, m)

\* Giveaway.verify_entry
VerifyEntry(m) == VerifyEntryOn(requirements, flags, _host, has_message_cache, m)

\* ------------------------------------------------------------ the call log
Call(op, arg, result, role, was) ==
    [op |-> op, arg |-> arg, result |-> result, role |-> role, was |-> was]

NoFlags ==
    [no_donor |-> FALSE, donor |-> NoMember, no_multi |-> FALSE,
     no_multiple_winners |-> FALSE, message_count |-> 0]

NoRecord ==
    [exists |-> FALSE, message_id |-> 0, entrants |-> {}, winners |-> <<>>,
     reason |-> "", host |-> 0, amount_of_winners |-> 0,
     starts_at |-> 0, ends_at |-> 0,
     requirements |-> NoRequirements, flags |-> NoFlags,
     prize |-> None, emoji |-> None, channel_id |-> 0, guild_id |-> 0]

NoReason == ""           \* reason=None
\* the literal of line 570 (its backquotes left out)
MessageGone == "The giveaway message was either deleted or bot had no read message/history permissions."
EndedSuccessfully == "Giveaway ended successfully."
CallerReasons == {NoReason, "ended early"}

\* -------------------------------------------------------------- entrants
\* Variant of the add that drops a present id instead of keeping it.
AddEntrantToggles(m) ==
    IF VerifyEntry(m).kind # "allow" THEN _entrants
    ELSE IF m \in _entrants THEN _entrants \ {m}
    ELSE _entrants \cup {m}

\* Giveaway.add_entrant: the entrant set after the call
AddEntrantEntrants(m) ==
    IF VerifyEntry(m).kind # "allow" THEN _entrants
    ELSE IF IntValue(m) \in entrants THEN _entrants
    ELSE _entrants \cup {m}

\* Variant of add_entrant's result that reports every rejection as False.
AddEntrantResultFalse(m) ==
    LET v == VerifyEntry(m)
    IN IF v.kind # "allow" THEN "False"
       ELSE IF IntValue(m) \in entrants THEN "False"
       ELSE "True"

\* Giveaway.add_entrant: the value returned (or the exception raised)
AddEntrantResult(m) ==
    LET v == VerifyEntry(m)
    IN IF v.kind # "allow" THEN v.reason
       ELSE IF IntValue(m) \in entrants THEN "False"
       ELSE "True"

AddEntrant(m) ==
    /\ _entrants' = AddEntrantEntrants(m)
    /\ last' = Call("add_entrant", m, AddEntrantResult(m), VerifyEntry(m).role,
                    m \in _entrants)
    /\ UNCHANGED <<now, starts_at, ends_at, amount_of_winners, requirements, flags,
                   _host, prize, emoji,
                   channel_id, guild_id, message_id, _winners, has_message_cache, _message_cache,
                   cache, nextId, waiter, endPc, endReason, ended_record, selected, drawPool,
                   amariUp>>

\* Variant of the removal that empties the set.
RemoveEntrantClears(m) ==
    IF m \notin _entrants THEN _entrants ELSE {}

\* Giveaway.remove_entrant: the entrant set after the call
RemoveEntrantEntrants(m) ==
    IF m \notin _entrants THEN _entrants ELSE _entrants \ {m}

\* Giveaway.remove_entrant: the value returned
RemoveEntrantResult(m) ==
    IF m \notin _entrants THEN "False" ELSE "True"

RemoveEntrant(m) ==
    /\ _entrants' = RemoveEntrantEntrants(m)
    /\ last' = Call("remove_entrant", m, RemoveEntrantResult(m), 0, m \in _entrants)
    /\ UNCHANGED <<now, starts_at, ends_at, amount_of_winners, requirements, flags,
                   _host, prize, emoji,
                   channel_id, guild_id, message_id, _winners, has_message_cache, _message_cache,
                   cache, nextId, waiter, endPc, endReason, ended_record, selected, drawPool,
                   amariUp>>

\* --------------------------------------------------------- the environment
\* The clock advances, up to a limit.
TickUntil(limit) ==
    /\ now < limit
    /\ now' = now + 1
    /\ last' = Call("tick", 0, "", 0, FALSE)
    /\ UNCHANGED <<starts_at, ends_at, amount_of_winners, requirements, flags, _host, prize, emoji,
                   channel_id, guild_id,
                   message_id, _entrants, _winners, has_message_cache, _message_cache,
                   cache, nextId, waiter, endPc, endReason, ended_record, selected, drawPool,
                   amariUp>>

\* The clock advances.
Tick == TickUntil(MaxTime)

\* The message tracker counts a message of member m.
MessageSent(m) ==
    /\ has_message_cache
    /\ _message_cache[m] < MaxMessages
    /\ _message_cache' = [_message_cache EXCEPT ![m] = @ + 1]
    /\ last' = Call("message", m, "", 0, FALSE)
    /\ UNCHANGED <<now, starts_at, ends_at, amount_of_winners, requirements, flags,
                   _host, prize, emoji,
                   channel_id, guild_id, message_id, _entrants, _winners, has_message_cache, cache,
                   nextId, waiter, endPc, endReason, ended_record, selected, drawPool, amariUp>>

\* The reputation service goes down or comes back.
AmariToggle ==
    /\ amariUp' = ~amariUp
    /\ last' = Call("amari", 0, "", 0, FALSE)
    /\ UNCHANGED <<now, starts_at, ends_at, amount_of_winners, requirements, flags,
                   _host, prize, emoji,
                   channel_id, guild_id, message_id, _entrants, _winners, has_message_cache,
                   _message_cache, cache, nextId, waiter, endPc, endReason,
                   ended_record, selected, drawPool>>

\* ----------------------------------------------------------------- start
\* What start() raises, or "ok".  On an ended giveaway it builds the message
\* of GiveawayAlreadyEnded from self.time_to_end first.
StartOutcome(chan) ==
    IF ended THEN
        IF "time_to_end" \in GiveawayAttributes
        THEN "GiveawayAlreadyEnded" ELSE "AttributeError"
    ELSE IF ~chan THEN "GiveawayError"
    ELSE "ok"

\* The registry after start(): remove_from_cache(self) under the old message
\* id, add_to_cache(self) under the new one.
StartCache(chan) ==
    IF ended THEN cache
    ELSE IF ~chan THEN cache \ {message_id}
    ELSE (cache \ {message_id}) \cup {nextId}

\* create_embed, called by start(): the message-count flag overrides the rule
StartRequirements(chan) ==
    IF StartOutcome(chan) = "ok" /\ flags.message_count # 0
    THEN [requirements EXCEPT !.messages = flags.message_count]
    ELSE requirements

\* Giveaway.start
StartBody(chan, caller) ==
    /\ nextId <= MaxMsgId
    /\ message_id' = IF StartOutcome(chan) = "ok" THEN nextId ELSE message_id
    /\ nextId' = IF StartOutcome(chan) = "ok" THEN nextId + 1 ELSE nextId
    /\ cache' = StartCache(chan)
    /\ requirements' = StartRequirements(chan)
    /\ last' = Call(caller, 0, StartOutcome(chan), 0, FALSE)
    /\ UNCHANGED <<now, starts_at, ends_at, amount_of_winners, flags, _host, prize, emoji,
                   channel_id, guild_id,
                   _entrants, _winners, has_message_cache, _message_cache, endPc,
                   endReason, ended_record, selected, drawPool, amariUp>>

\* start() called by the cog
Start(chan) ==
    /\ StartBody(chan, "start")
    /\ UNCHANGED waiter

\* ---------------------------------------------------------------- waiter
\* Giveaway.__init__: the waiter task is created for a future starts_at
SpawnedWaiter(s, t) ==
    IF s > t THEN [pc |-> "run", wake |-> 0] ELSE [pc |-> "none", wake |-> 0]

WaiterRuns ==
    \/ waiter.pc = "run"
    \/ waiter.pc = "sleep" /\ now >= waiter.wake

\* Variant of the waiter's test that finds the giveaway due at every poll.
WaiterDueAlways == TRUE

\* the negation of `self.starts_at > datetime.now(timezone.utc)` in the loop
WaiterDue == ~(starts_at > now)

\* The task made in __init__ is in self._tasks from then on: nothing removes it.
Tracked == waiter.pc # "none"

\* _wait_until_start: the giveaway is not due, sleep
WaiterSleep ==
    /\ WaiterRuns
    /\ ~WaiterDue
    /\ waiter' = [pc |-> "sleep", wake |-> now + SleepInterval]
    /\ last' = Call("waiter_sleep", 0, "", 0, FALSE)
    /\ UNCHANGED <<now, starts_at, ends_at, amount_of_winners, requirements, flags,
                   _host, prize, emoji,
                   channel_id, guild_id, message_id, _entrants, _winners, has_message_cache,
                   _message_cache, cache, nextId, endPc, endReason, ended_record,
                   selected, drawPool, amariUp>>

\* _wait_until_start: the giveaway is due, start it and finish
WaiterStart(chan) ==
    /\ WaiterRuns
    /\ WaiterDue
    /\ StartBody(chan, "waiter_start")
    /\ waiter' = [pc |-> "done", wake |-> 0]

\* ------------------------------------------------------------------- end
\* self.entrants as a list
OwnList == SetToSeq(_entrants)

\* apply_multi: one extra entry for every entrant holding a multiplier role
ApplyMulti(list) ==
    list \o SelectSeq(list, LAMBDA m : MemberRoles(m) \cap MultiRoles # {})

\* The pool end() hands to pick_winners
EndPool == IF flags.no_multi THEN OwnList ELSE ApplyMulti(OwnList)

\* `entrants = entrants or self.entrants`
PickPool(pool) == IF pool = <<>> THEN OwnList ELSE pool

\* The draws pick_winners can make from a pool: one index per iteration
Draws(pool) ==
    IF PickPool(pool) = <<>> THEN {<<>>}
    ELSE [1..amount_of_winners -> 1..Len(PickPool(pool))]

\* Variant of the draw's check that lets every drawn member pass.
PickVerifySkipped(w) == Allow

\* `await self.verify_entry(w)` on a drawn member
PickVerify(w) == VerifyEntry(w)

\* Variant of the duplicate test that never finds a duplicate.
AlreadyWonNever(w, w_list) == FALSE

\* `self.flags.no_multiple_winners and w in w_list`
AlreadyWon(w, w_list) == flags.no_multiple_winners /\ w \in Range(w_list)

RECURSIVE PickLoop(_, _, _, _)
PickLoop(pool, draws, i, w_list) ==
    IF i > amount_of_winners THEN [kind |-> "ok", w |-> w_list]
    ELSE LET w == pool[draws[i]]
             v == PickVerify(w)
         IN IF v.kind = "raise" THEN [kind |-> v.reason, w |-> <<>>]
            ELSE IF v.kind = "reject" THEN PickLoop(pool, draws, i + 1, w_list)
            ELSE IF AlreadyWon(w, w_list)
            THEN PickLoop(pool, draws, i + 1, w_list)
            ELSE PickLoop(pool, draws, i + 1, Append(w_list, w))

\* Giveaway.pick_winners
PickWinners(pool, draws) ==
    IF PickPool(pool) = <<>> THEN [kind |-> "ok", w |-> <<>>]
    ELSE PickLoop(PickPool(pool), draws, 1, <<>>)

\* What a call of pick_winners leaves in the call log: its argument, the
\* draws random.choice made and the list it returned
PickCallLog(pool, draws, r) ==
    [op |-> "pick_winners", arg |-> 0, result |-> r.kind, role |-> 0,
     was |-> FALSE, pool |-> pool, draws |-> draws, val |-> r.w]

\* The candidate lists a caller hands to pick_winners: the members of some set
CandidatePools == {SetToSeq(S) : S \in SUBSET Members}

\* A call of pick_winners(entrants=pool); it changes nothing of the giveaway
PickCall(pool, draws) ==
    /\ last' = PickCallLog(pool, draws, PickWinners(pool, draws))
    /\ UNCHANGED <<now, starts_at, ends_at, amount_of_winners, requirements, flags,
                   _host, prize, emoji,
                   channel_id, guild_id, message_id, _entrants, _winners, has_message_cache,
                   _message_cache, cache, nextId, waiter, endPc, endReason,
                   ended_record, selected, drawPool, amariUp>>

\* GiveawayMeta.json
Json ==
    [message_id |-> message_id, channel_id |-> channel_id, guild_id |-> guild_id,
     prize |-> prize, amount_of_winners |-> amount_of_winners,
     requirements |-> requirements, flags |-> flags, emoji |-> emoji,
     entrants |-> SetToSeq(_entrants), winners |-> _winners, host |-> _host,
     ends_at |-> ends_at, starts_at |-> starts_at]

\* `not x` on an id or a timestamp: None and 0 both count as not provided
Falsy(x) == x = 0

\* GiveawayMeta.check_kwargs (the bot is always handed over)
CheckKwargs(kwargs) ==
    IF \/ Falsy(kwargs.message_id)
       \/ Falsy(kwargs.guild_id)
       \/ Falsy(kwargs.channel_id)
       \/ Falsy(kwargs.ends_at)
    THEN "GiveawayError" ELSE "ok"

\* Variant of the lookup that ignores the stored value.
JsonGetDefault(json, key, default) == default

\* json.get(key, default) and kwargs.get(key, default)
JsonGet(json, key, default) ==
    IF key \in DOMAIN json THEN json[key] ELSE default

\* The keyword arguments from_json builds from a stored dict
FromJsonKwargs(json) ==
    [message_id |-> json.message_id, channel_id |-> json.channel_id,
     guild_id |-> json.guild_id,
     prize |-> JsonGet(json, "prize", DefaultPrize),
     amount_of_winners |-> JsonGet(json, "amount_of_winners", 1),
     requirements |-> json.requirements, flags |-> json.flags,
     emoji |-> JsonGet(json, "emoji", DefaultEmoji),
     entrants |-> JsonGet(json, "entrants", <<>>),
     winners |-> JsonGet(json, "winners", <<>>),
     host |-> json.host,
     ends_at |-> json.ends_at, starts_at |-> json.starts_at]

\* GiveawayMeta.__init__ on keyword arguments that pass check_kwargs: the
\* fields of the new object
MetaInit(kwargs) ==
    [exists |-> TRUE,
     message_id |-> kwargs.message_id, channel_id |-> kwargs.channel_id,
     guild_id |-> kwargs.guild_id,
     prize |-> JsonGet(kwargs, "prize", DefaultPrize),
     amount_of_winners |-> JsonGet(kwargs, "amount_of_winners", 1),
     requirements |-> kwargs.requirements, flags |-> kwargs.flags,
     emoji |-> JsonGet(kwargs, "emoji", DefaultEmoji),
     entrants |-> Range(kwargs.entrants), winners |-> kwargs.winners,
     host |-> kwargs.host,
     starts_at |-> kwargs.starts_at, ends_at |-> kwargs.ends_at,
     reason |-> NoReason]

\* EndedGiveaway.from_json on a stored dict carrying this reason
FromJson(json, reason) ==
    [MetaInit(FromJsonKwargs(json)) EXCEPT !.reason = reason]

\* Variant of from_giveaway that always stores the default reason.
FromGiveawayDefaultReason(reason) ==
    FromJson(Json, EndedSuccessfully)

\* EndedGiveaway.from_giveaway
FromGiveaway(reason) ==
    FromJson(Json, IF reason = NoReason THEN EndedSuccessfully ELSE reason)

\* The cog's registry calls end() on a giveaway once: not while a call is in
\* progress and not after one has returned its EndedGiveaway.
RegistryAllowsEnd == endPc = "idle" /\ ~ended_record.exists

EndFrame ==
    UNCHANGED <<now, starts_at, ends_at, amount_of_winners, requirements, flags,
                _host, prize, emoji,
                   channel_id, guild_id, message_id, _entrants, has_message_cache, _message_cache,
                cache, nextId, waiter, ended_record, amariUp>>

\* end(): the giveaway has not started
EndNotStarted ==
    /\ RegistryAllowsEnd
    /\ ~started
    /\ last' = Call("end", 0, "GiveawayNotStarted", 0, FALSE)
    /\ EndFrame
    /\ UNCHANGED <<_winners, endPc, endReason, selected, drawPool>>

\* end(): the channel cannot be found
EndNoChannel ==
    /\ RegistryAllowsEnd
    /\ started
    /\ last' = Call("end", 0, "GiveawayError", 0, FALSE)
    /\ EndFrame
    /\ UNCHANGED <<_winners, endPc, endReason, selected, drawPool>>

\* Variant of the no-message path that stores the whole entrant list as winners.
NoMessageWinnersAll == OwnList

\* end(), lines 564-571: what the no-message path leaves in self._winners
NoMessageWinners == _winners

\* end(): the message cannot be fetched; the notice is being sent
EndNoMessage(reason) ==
    /\ RegistryAllowsEnd
    /\ started
    /\ endPc' = "notice"
    /\ endReason' = reason
    /\ _winners' = NoMessageWinners
    /\ last' = Call("end_notice", 0, "", 0, FALSE)
    /\ EndFrame
    /\ UNCHANGED <<selected, drawPool>>

\* end(): the message is there; winners are drawn and stored (lines 572-590),
\* the announcement is being edited and sent. With keep, the list handed to
\* pick_winners is remembered in drawPool.
EndSelectBody(reason, draws, keep) ==
    /\ RegistryAllowsEnd
    /\ started
    /\ LET r == PickWinners(EndPool, draws)
       IN IF r.kind = "ok"
          THEN /\ _winners' = r.w
               /\ selected' = TRUE
               /\ drawPool' = IF keep THEN EndPool ELSE drawPool
               /\ endPc' = "announce"
               /\ endReason' = reason
               /\ last' = Call("end_select", 0, "", 0, FALSE)
          ELSE /\ last' = Call("end", 0, r.kind, 0, FALSE)
               /\ UNCHANGED <<_winners, selected, drawPool, endPc, endReason>>
    /\ EndFrame

EndSelect(reason, draws) == EndSelectBody(reason, draws, FALSE)

\* the same step with the list remembered
EndSelectKeepingPool(reason, draws) == EndSelectBody(reason, draws, TRUE)

\* Counter(self.winners).keys(): the distinct winners in order of first
\* occurrence
RECURSIVE CounterKeys(_)
CounterKeys(seq) ==
    IF seq = <<>> THEN <<>>
    ELSE <<Head(seq)>> \o
         CounterKeys(SelectSeq(Tail(seq), LAMBDA x : x # Head(seq)))

\* The loop of wdm(): the winners it sends a DM to when the DMs to the members
\* of failing raise discord.HTTPException; the first failure returns False
RECURSIVE WdmAttempts(_, _)
WdmAttempts(order, failing) ==
    IF order = <<>> THEN {}
    ELSE IF Head(order) \in failing THEN {Head(order)}
    ELSE {Head(order)} \cup WdmAttempts(Tail(order), failing)

\* What the DM part of end() leaves in the call log: the settings, the members
\* whose DMs fail, the winners a DM was tried for and whether the host's was
DmCallLog(winnerdm, hostdm, failing) ==
    [op |-> "end_dm", arg |-> 0, result |-> "", role |-> 0, was |-> FALSE,
     winnerdm |-> winnerdm, hostdm |-> hostdm, failing |-> failing,
     attempted |-> IF winnerdm /\ Len(_winners) # 0 /\ amount_of_winners # 0
                   THEN WdmAttempts(CounterKeys(_winners), failing) ELSE {},
     host_dm |-> hostdm]

\* end(), lines 608-625: after the announcement, wdm() when settings.winnerdm
\* is on and there are winners, then hdm() when settings.hostdm is on
EndDms(winnerdm, hostdm, failing) ==
    /\ endPc = "announce"
    /\ winnerdm \/ hostdm
    /\ endPc' = "dms"
    /\ last' = DmCallLog(winnerdm, hostdm, failing)
    /\ EndFrame
    /\ UNCHANGED <<_winners, endReason, selected, drawPool>>

\* The reason end() hands to from_giveaway: its own on the no-message path
\* (line 570), the caller's otherwise (lines 611, 627)
ReturnReason == IF endPc = "notice" THEN MessageGone ELSE endReason

\* end(): returns EndedGiveaway.from_giveaway(self, reason)
EndReturn ==
    /\ endPc # "idle"
    /\ ended_record' = FromGiveaway(ReturnReason)
    /\ endPc' = "idle"
    /\ last' = Call("end", 0, "EndedGiveaway", 0, FALSE)
    /\ UNCHANGED <<now, starts_at, ends_at, amount_of_winners, requirements, flags,
                   _host, prize, emoji,
                   channel_id, guild_id, message_id, _entrants, _winners, has_message_cache,
                   _message_cache, cache, nextId, waiter, endReason, selected, drawPool,
                   amariUp>>

\* ---------------------------------------------------------------- reroll
\* list.remove(w): the list without the first occurrence of w
RECURSIVE RemoveFirst(_, _)
RemoveFirst(list, w) ==
    IF list = <<>> THEN <<>>
    ELSE IF Head(list) = w THEN Tail(list)
    ELSE <<Head(list)>> \o RemoveFirst(Tail(list), w)

\* The multiplied entrant list reroll draws from
RerollPool(rec) == ApplyMulti(SetToSeq(rec.entrants))

\* The draws reroll can make: one member of the list per iteration of
\* `for _ in self.entrants`
RerollDraws(rec) ==
    [1..Cardinality(rec.entrants) -> Range(RerollPool(rec))]

\* `winners = winners or 1`
RerollCount(count) == IF count = 0 THEN 1 ELSE count

\* The loop of reroll from iteration i on. EndedGiveaway has no
\* _message_cache. A member no longer in the shrunken list is not a draw
\* random.choice can make (valid is FALSE).
RECURSIVE RerollLoop(_, _, _, _, _, _)
RerollLoop(rec, list, draws, i, winner, count) ==
    IF i > Cardinality(rec.entrants)
    THEN [kind |-> "ok", w |-> winner, valid |-> TRUE]
    ELSE IF draws[i] \notin Range(list)
    THEN [kind |-> "ok", w |-> winner, valid |-> FALSE]
    ELSE LET w == draws[i]
             v == VerifyEntryOn(rec.requirements, rec.flags, rec.host, FALSE, w)
         IN IF v.kind = "raise"
            THEN [kind |-> v.reason, w |-> <<>>, valid |-> TRUE]
            ELSE IF v.kind = "reject"
            THEN RerollLoop(rec, RemoveFirst(list, w), draws, i + 1, winner, count)
            ELSE IF Len(Append(winner, w)) = count
            THEN [kind |-> "ok", w |-> Append(winner, w), valid |-> TRUE]
            ELSE RerollLoop(rec, list, draws, i + 1, Append(winner, w), count)

\* Variant of the assignment that also narrows the entrants to the winners.
RerollRecordNarrows(rec, winner) ==
    [rec EXCEPT !.winners = winner, !.entrants = Range(winner)]

\* `self._winners = winner`
RerollRecord(rec, winner) == [rec EXCEPT !.winners = winner]

RerollFailures == {"no_message", "no_channel"}
RerollCounts == {0, 1, 2, 3}

\* EndedGiveaway.reroll(ctx, winners=count); count 0 stands for an omitted one
Reroll(fetch, count, draws) ==
    /\ ended_record.exists
    /\ LET r == RerollLoop(ended_record, RerollPool(ended_record), draws, 1,
                           <<>>, RerollCount(count))
       IN IF fetch = "no_channel"
          THEN /\ last' = Call("reroll", count, "GiveawayError", 0, FALSE)
               /\ UNCHANGED ended_record
          ELSE IF fetch = "no_message"
          THEN /\ last' = Call("reroll", count, "no_message", 0, FALSE)
               /\ UNCHANGED ended_record
          ELSE IF Len(RerollPool(ended_record)) = 0
          THEN /\ last' = Call("reroll", count, "no_entrants", 0, FALSE)
               /\ UNCHANGED ended_record
          ELSE /\ r.valid
               /\ last' = Call("reroll", count, r.kind, 0, FALSE)
               /\ IF r.kind = "ok"
                  THEN ended_record' = RerollRecord(ended_record, r.w)
                  ELSE UNCHANGED ended_record
    /\ UNCHANGED <<now, starts_at, ends_at, amount_of_winners, requirements, flags,
                   _host, prize, emoji, channel_id, guild_id, message_id,
                   _entrants, _winners, has_message_cache, _message_cache, cache,
                   nextId, waiter, endPc, endReason, selected, drawPool, amariUp>>

\* ------------------------------------------------ construction, reload
\* Giveaway.__init__(**kwargs), called by op: check_kwargs, then the fields
\* of the new object, its waiter and its message cache. A failed call leaves
\* the object there was; after a successful one the new object is the one
\* followed, and it has not been ended.
Construct(kwargs, op) ==
    IF CheckKwargs(kwargs) # "ok"
    THEN /\ last' = Call(op, 0, CheckKwargs(kwargs), 0, FALSE)
         /\ UNCHANGED <<now, starts_at, ends_at, amount_of_winners, requirements,
                        flags, _host, prize, emoji, channel_id, guild_id,
                        message_id, _entrants, _winners, has_message_cache,
                        _message_cache, cache, nextId, waiter, endPc, endReason,
                        ended_record, selected, drawPool, amariUp>>
    ELSE LET new == MetaInit(kwargs)
         IN /\ starts_at' = new.starts_at
            /\ ends_at' = new.ends_at
            /\ amount_of_winners' = new.amount_of_winners
            /\ requirements' = new.requirements
            /\ flags' = new.flags
            /\ _host' = new.host
            /\ prize' = new.prize
            /\ emoji' = new.emoji
            /\ channel_id' = new.channel_id
            /\ guild_id' = new.guild_id
            /\ message_id' = new.message_id
            /\ _entrants' = new.entrants
            /\ _winners' = new.winners
            /\ has_message_cache' =
                   (new.flags.message_count # 0 \/ new.requirements.messages # 0)
            /\ _message_cache' = [m \in Members |-> 0]
            /\ waiter' = SpawnedWaiter(new.starts_at, now)
            /\ endPc' = "idle"
            /\ endReason' = NoReason
            /\ selected' = FALSE
            /\ drawPool' = <<>>
            /\ ended_record' = NoRecord
            /\ last' = Call(op, 0, "ok", 0, FALSE)
            /\ UNCHANGED <<now, cache, nextId, amariUp>>

\* Giveaway.from_json(self.json): the stored giveaway is loaded again
Reload ==
    /\ RegistryAllowsEnd
    /\ Construct(FromJsonKwargs(Json), "reload")

\* EndedGiveaway.json
EndedJson(rec) ==
    [message_id |-> rec.message_id, channel_id |-> rec.channel_id,
     guild_id |-> rec.guild_id, prize |-> rec.prize,
     amount_of_winners |-> rec.amount_of_winners,
     requirements |-> rec.requirements, flags |-> rec.flags, emoji |-> rec.emoji,
     entrants |-> SetToSeq(rec.entrants), winners |-> rec.winners,
     host |-> rec.host, ends_at |-> rec.ends_at, starts_at |-> rec.starts_at,
     reason |-> rec.reason]

\* EndedGiveaway.from_json(self.json): the stored ended giveaway is loaded again
ReloadEnded ==
    /\ ended_record.exists
    /\ LET json == EndedJson(ended_record)
       IN IF CheckKwargs(json) # "ok"
          THEN /\ last' = Call("reload_ended", 0, CheckKwargs(json), 0, FALSE)
               /\ UNCHANGED ended_record
          ELSE /\ last' = Call("reload_ended", 0, "ok", 0, FALSE)
               /\ ended_record' = FromJson(json, JsonGet(json, "reason", None))
    /\ UNCHANGED <<now, starts_at, ends_at, amount_of_winners, requirements, flags,
                   _host, prize, emoji, channel_id, guild_id, message_id,
                   _entrants, _winners, has_message_cache, _message_cache, cache,
                   nextId, waiter, endPc, endReason, selected, drawPool, amariUp>>

\* ------------------------------------------------------ the specifications
StartChoices == {0, 1}
WinnerChoices == {1, 2}
EndChoices == {2}


\* Giveaway.__init__ at time 0, registered under its first message id
Init ==
    /\ now = 0
    /\ starts_at \in StartChoices
    /\ ends_at \in EndChoices
    /\ amount_of_winners \in WinnerChoices
    /\ requirements = NoRequirements
    /\ flags = NoFlags
    /\ _host = 1
    /\ prize = "Nitro"
    /\ emoji = DefaultEmoji
    /\ channel_id = 1
    /\ guild_id = 1
    /\ message_id = 1
    /\ _entrants = {}
    /\ _winners = <<>>
    /\ has_message_cache = (flags.message_count # 0 \/ requirements.messages # 0)
    /\ _message_cache = [m \in Members |-> 0]
    /\ cache = {1}
    /\ nextId = 2
    /\ waiter = SpawnedWaiter(starts_at, now)
    /\ endPc = "idle"
    /\ endReason = NoReason
    /\ ended_record = NoRecord
    /\ selected = FALSE
    /\ drawPool = <<>>
    /\ amariUp = TRUE
    /\ last = Call("init", 0, "", 0, FALSE)

Next ==
    \/ Tick
    \/ \E m \in Members : AddEntrant(m)
    \/ \E m \in Members : RemoveEntrant(m)
    \/ \E chan \in BOOLEAN : Start(chan)
    \/ WaiterSleep
    \/ \E chan \in BOOLEAN : WaiterStart(chan)
    \/ EndNotStarted
    \/ EndNoChannel
    \/ \E reason \in CallerReasons : EndNoMessage(reason)
    \/ \E reason \in CallerReasons : \E draws \in Draws(EndPool) : EndSelect(reason, draws)
    \/ EndReturn

Spec == Init /\ [][Next]_vars

\* The rule sets and flags entry is exercised with: every role rule alone or
\* combined, with at most one numeric rule.
NumericRules ==
    {[amari_level |-> 0, amari_weekly |-> 0, messages |-> 0],
     [amari_level |-> 1, amari_weekly |-> 0, messages |-> 0],
     [amari_level |-> 0, amari_weekly |-> 1, messages |-> 0],
     [amari_level |-> 0, amari_weekly |-> 0, messages |-> 1]}

EntryRequirements ==
    {[bypass |-> by, blacklist |-> bl, required |-> rq,
      amari_level |-> n.amari_level, amari_weekly |-> n.amari_weekly,
      messages |-> n.messages] :
        by \in {{}, {1}}, bl \in {{}, {2}}, rq \in {{}, {1}}, n \in NumericRules}

EntryFlags ==
    {[NoFlags EXCEPT !.no_donor = nd, !.donor = d] :
        nd \in BOOLEAN, d \in {NoMember, 2}}

\* A started, running giveaway hosted by member 1
InitEntry ==
    /\ now = 1
    /\ starts_at = 0
    /\ ends_at = 2
    /\ amount_of_winners = 1
    /\ requirements \in EntryRequirements
    /\ flags \in EntryFlags
    /\ _host = 1
    /\ prize = "Nitro"
    /\ emoji = DefaultEmoji
    /\ channel_id = 1
    /\ guild_id = 1
    /\ message_id = 1
    /\ _entrants = {}
    /\ _winners = <<>>
    /\ has_message_cache = (flags.message_count # 0 \/ requirements.messages # 0)
    /\ _message_cache = [m \in Members |-> 0]
    /\ cache = {1}
    /\ nextId = 2
    /\ waiter = SpawnedWaiter(starts_at, now)
    /\ endPc = "idle"
    /\ endReason = NoReason
    /\ ended_record = NoRecord
    /\ selected = FALSE
    /\ drawPool = <<>>
    /\ amariUp = TRUE
    /\ last = Call("init", 0, "", 0, FALSE)

NextEntry ==
    \/ \E m \in Members : AddEntrant(m)
    \/ \E m \in Members : RemoveEntrant(m)
    \/ \E m \in Members : MessageSent(m)
    \/ AmariToggle

SpecEntry == InitEntry /\ [][NextEntry]_vars

\* The rule sets and flags winners are drawn under: no rule, a blacklisted
\* role, or one of the two Amari minimums
PickRequirements ==
    {NoRequirements,
     [NoRequirements EXCEPT !.blacklist = {2}],
     [NoRequirements EXCEPT !.amari_level = 1],
     [NoRequirements EXCEPT !.amari_weekly = 1]}

PickFlags == {[NoFlags EXCEPT !.no_multiple_winners = b] : b \in BOOLEAN}

\* A started, running giveaway hosted by member 1
InitPick ==
    /\ now = 1
    /\ starts_at = 0
    /\ ends_at = 2
    /\ amount_of_winners \in WinnerChoices
    /\ requirements \in PickRequirements
    /\ flags \in PickFlags
    /\ _host = 1
    /\ prize = "Nitro"
    /\ emoji = DefaultEmoji
    /\ channel_id = 1
    /\ guild_id = 1
    /\ message_id = 1
    /\ _entrants = {}
    /\ _winners = <<>>
    /\ has_message_cache = (flags.message_count # 0 \/ requirements.messages # 0)
    /\ _message_cache = [m \in Members |-> 0]
    /\ cache = {1}
    /\ nextId = 2
    /\ waiter = SpawnedWaiter(starts_at, now)
    /\ endPc = "idle"
    /\ endReason = NoReason
    /\ ended_record = NoRecord
    /\ selected = FALSE
    /\ drawPool = <<>>
    /\ amariUp = TRUE
    /\ last = Call("init", 0, "", 0, FALSE)

NextPick ==
    \/ \E m \in Members : AddEntrant(m)
    \/ \E m \in Members : RemoveEntrant(m)
    \/ AmariToggle
    \/ \E pool \in CandidatePools : \E draws \in Draws(pool) : PickCall(pool, draws)
    \/ \E draws \in Draws(EndPool) : EndSelect(NoReason, draws)
    \/ EndReturn

SpecPick == InitPick /\ [][NextPick]_vars

\* The rule sets rerolls run under: no rule, one of the two Amari minimums,
\* or a message minimum
RerollRequirements ==
    {NoRequirements,
     [NoRequirements EXCEPT !.amari_level = 1],
     [NoRequirements EXCEPT !.amari_weekly = 1],
     [NoRequirements EXCEPT !.messages = 1]}

\* The message counts a giveaway can have collected: none without a cache
MessageCounts(cached) ==
    IF cached THEN [Members -> 0..MaxMessages] ELSE {[m \in Members |-> 0]}

\* The entrant sets add_entrant can have built while Amari answered
JoinedSets ==
    {S \in SUBSET Members : \A m \in S : VerifyEntry(m).kind = "allow"}

\* A started, running giveaway hosted by member 1 whose entrants have joined,
\* to be ended and rerolled
InitReroll ==
    /\ now = 1
    /\ starts_at = 0
    /\ ends_at = 2
    /\ amount_of_winners = 1
    /\ requirements \in RerollRequirements
    /\ flags = NoFlags
    /\ _host = 1
    /\ prize = "Nitro"
    /\ emoji = DefaultEmoji
    /\ channel_id = 1
    /\ guild_id = 1
    /\ message_id = 1
    /\ amariUp = TRUE
    /\ has_message_cache = (flags.message_count # 0 \/ requirements.messages # 0)
    /\ _message_cache \in MessageCounts(has_message_cache)
    /\ _entrants \in JoinedSets
    /\ _winners = <<>>
    /\ cache = {1}
    /\ nextId = 2
    /\ waiter = SpawnedWaiter(starts_at, now)
    /\ endPc = "idle"
    /\ endReason = NoReason
    /\ ended_record = NoRecord
    /\ selected = FALSE
    /\ drawPool = <<>>
    /\ last = Call("init", 0, "", 0, FALSE)

NextReroll ==
    \/ AmariToggle
    \/ EndNoMessage(NoReason)
    \/ \E draws \in Draws(EndPool) : EndSelect(NoReason, draws)
    \/ EndReturn
    \/ \E fetch \in RerollFailures : \E count \in RerollCounts :
          Reroll(fetch, count, <<>>)
    \/ \E count \in RerollCounts : \E draws \in RerollDraws(ended_record) :
          Reroll("ok", count, draws)

SpecReroll == InitReroll /\ [][NextReroll]_vars

\* The keyword arguments giveaways are constructed with; 0 stands for an id
\* or an ends_at that is not given
IdChoices == {<<1, 1, 1>>, <<0, 1, 1>>, <<1, 0, 1>>, <<1, 1, 0>>}
StartTimes == {1, 2}
EndTimes == {0, 1, 2, 3}
PrizeChoices == {None, "Nitro"}
WinnerLists == {<<>>, <<2, 1>>}

ConstructKwargs ==
    {[message_id |-> ids[1], channel_id |-> ids[2], guild_id |-> ids[3],
      prize |-> p, amount_of_winners |-> 1, requirements |-> NoRequirements,
      flags |-> NoFlags, emoji |-> None, entrants |-> SetToSeq(S),
      winners |-> w, host |-> 1, ends_at |-> e, starts_at |-> st] :
        ids \in IdChoices, p \in PrizeChoices, S \in SUBSET Members,
        w \in WinnerLists, e \in EndTimes, st \in StartTimes}

\* A giveaway hosted by member 1, constructed with every field given
InitRecord ==
    /\ now = 2
    /\ starts_at = 1
    /\ ends_at = 3
    /\ amount_of_winners = 1
    /\ requirements = NoRequirements
    /\ flags = NoFlags
    /\ _host = 1
    /\ prize = "Nitro"
    /\ emoji = DefaultEmoji
    /\ channel_id = 1
    /\ guild_id = 1
    /\ message_id = 1
    /\ _entrants = {}
    /\ _winners = <<>>
    /\ has_message_cache = (flags.message_count # 0 \/ requirements.messages # 0)
    /\ _message_cache = [m \in Members |-> 0]
    /\ cache = {1}
    /\ nextId = 2
    /\ waiter = SpawnedWaiter(starts_at, now)
    /\ endPc = "idle"
    /\ endReason = NoReason
    /\ ended_record = NoRecord
    /\ selected = FALSE
    /\ drawPool = <<>>
    /\ amariUp = TRUE
    /\ last = Call("init", 0, "", 0, FALSE)

NextRecord ==
    \/ \E kwargs \in ConstructKwargs : Construct(kwargs, "construct")
    \/ Reload
    \/ EndNoMessage(NoReason)
    \/ \E draws \in Draws(EndPool) : EndSelect(NoReason, draws)
    \/ EndReturn
    \/ ReloadEnded

SpecRecord == InitRecord /\ [][NextRecord]_vars

\* The rule sets the evaluator is exercised with: every role rule alone or
\* combined, one or two required roles, with at most one numeric rule
RuleRequirements ==
    {[bypass |-> by, blacklist |-> bl, required |-> rq,
      amari_level |-> n.amari_level, amari_weekly |-> n.amari_weekly,
      messages |-> n.messages] :
        by \in {{}, {1}}, bl \in {{}, {2}}, rq \in {{}, {1}, {1, 2}},
        n \in NumericRules}

\* A started, running giveaway hosted by member 1
InitRules ==
    /\ now = 1
    /\ starts_at = 0
    /\ ends_at = 2
    /\ amount_of_winners = 1
    /\ requirements \in RuleRequirements
    /\ flags \in EntryFlags
    /\ _host = 1
    /\ prize = "Nitro"
    /\ emoji = DefaultEmoji
    /\ channel_id = 1
    /\ guild_id = 1
    /\ message_id = 1
    /\ _entrants = {}
    /\ _winners = <<>>
    /\ has_message_cache = (flags.message_count # 0 \/ requirements.messages # 0)
    /\ _message_cache = [m \in Members |-> 0]
    /\ cache = {1}
    /\ nextId = 2
    /\ waiter = SpawnedWaiter(starts_at, now)
    /\ endPc = "idle"
    /\ endReason = NoReason
    /\ ended_record = NoRecord
    /\ selected = FALSE
    /\ drawPool = <<>>
    /\ amariUp = TRUE
    /\ last = Call("init", 0, "", 0, FALSE)

SpecRules == InitRules /\ [][NextEntry]_vars

\* The clock of the waiter's specification runs past the first wake-up
WaitHorizon == MaxTime + SleepInterval
LateEnd == WaitHorizon + 1

\* A giveaway constructed at time 0, due now or later, ending before or
\* after the waiter can wake
InitWaiter ==
    /\ now = 0
    /\ starts_at \in StartChoices
    /\ ends_at \in EndChoices \cup {LateEnd}
    /\ amount_of_winners = 1
    /\ requirements = NoRequirements
    /\ flags = NoFlags
    /\ _host = 1
    /\ prize = "Nitro"
    /\ emoji = DefaultEmoji
    /\ channel_id = 1
    /\ guild_id = 1
    /\ message_id = 1
    /\ _entrants = {}
    /\ _winners = <<>>
    /\ has_message_cache = (flags.message_count # 0 \/ requirements.messages # 0)
    /\ _message_cache = [m \in Members |-> 0]
    /\ cache = {1}
    /\ nextId = 2
    /\ waiter = SpawnedWaiter(starts_at, now)
    /\ endPc = "idle"
    /\ endReason = NoReason
    /\ ended_record = NoRecord
    /\ selected = FALSE
    /\ drawPool = <<>>
    /\ amariUp = TRUE
    /\ last = Call("init", 0, "", 0, FALSE)

NextWaiter ==
    \/ TickUntil(WaitHorizon)
    \/ \E m \in Members : AddEntrant(m)
    \/ WaiterSleep
    \/ \E chan \in BOOLEAN : WaiterStart(chan)

\* The clock advances and the event loop runs a task that is ready.
SpecWaiter ==
    /\ InitWaiter
    /\ [][NextWaiter]_vars
    /\ WF_vars(TickUntil(WaitHorizon))
    /\ WF_vars(WaiterSleep)
    /\ WF_vars(\E chan \in BOOLEAN : WaiterStart(chan))

\* A started, running giveaway hosted by member 1 whose entrants have joined,
\* to be ended with DMs
InitDm ==
    /\ now = 1
    /\ starts_at = 0
    /\ ends_at = 2
    /\ amount_of_winners \in WinnerChoices
    /\ requirements = NoRequirements
    /\ flags \in PickFlags
    /\ _host = 1
    /\ prize = "Nitro"
    /\ emoji = DefaultEmoji
    /\ channel_id = 1
    /\ guild_id = 1
    /\ message_id = 1
    /\ amariUp = TRUE
    /\ has_message_cache = (flags.message_count # 0 \/ requirements.messages # 0)
    /\ _message_cache = [m \in Members |-> 0]
    /\ _entrants \in JoinedSets
    /\ _winners = <<>>
    /\ cache = {1}
    /\ nextId = 2
    /\ waiter = SpawnedWaiter(starts_at, now)
    /\ endPc = "idle"
    /\ endReason = NoReason
    /\ ended_record = NoRecord
    /\ selected = FALSE
    /\ drawPool = <<>>
    /\ last = Call("init", 0, "", 0, FALSE)

NextDm ==
    \/ EndNoMessage(NoReason)
    \/ \E draws \in Draws(EndPool) : EndSelect(NoReason, draws)
    \/ \E winnerdm \in BOOLEAN : \E hostdm \in BOOLEAN :
          \E failing \in SUBSET Members : EndDms(winnerdm, hostdm, failing)
    \/ EndReturn

SpecDm == InitDm /\ [][NextDm]_vars

\* A started, running giveaway hosted by member 1 whose entrants have joined;
\* members go on joining and leaving while it is ended
InitRace ==
    /\ now = 1
    /\ starts_at = 0
    /\ ends_at = 2
    /\ amount_of_winners \in WinnerChoices
    /\ requirements = NoRequirements
    /\ flags = NoFlags
    /\ _host = 1
    /\ prize = "Nitro"
    /\ emoji = DefaultEmoji
    /\ channel_id = 1
    /\ guild_id = 1
    /\ message_id = 1
    /\ amariUp = TRUE
    /\ has_message_cache = (flags.message_count # 0 \/ requirements.messages # 0)
    /\ _message_cache = [m \in Members |-> 0]
    /\ _entrants \in JoinedSets
    /\ _winners = <<>>
    /\ cache = {1}
    /\ nextId = 2
    /\ waiter = SpawnedWaiter(starts_at, now)
    /\ endPc = "idle"
    /\ endReason = NoReason
    /\ ended_record = NoRecord
    /\ selected = FALSE
    /\ drawPool = <<>>
    /\ last = Call("init", 0, "", 0, FALSE)

NextRace ==
    \/ \E m \in Members : AddEntrant(m)
    \/ \E m \in Members : RemoveEntrant(m)
    \/ \E draws \in Draws(EndPool) : EndSelectKeepingPool(NoReason, draws)
    \/ EndReturn

SpecRace == InitRace /\ [][NextRace]_vars

\* ------------------------------------------------------------- the claims
StartCalls == {"start", "waiter_start"}
EndCalls == {"end", "end_notice", "end_select"}
RejectionReasons ==
    {"no_donor", "blacklist", "required", "amari_level", "amari_weekly", "messages"}

\* C1: once end() has returned an EndedGiveaway, no later start() (direct or
\* by the waiter) publishes the giveaway again or files it in the registry
\* under a new message id.
C1_EndedIsTerminal ==
    [][ended_record.exists => (message_id' = message_id /\ cache' \subseteq cache)]_vars

\* C2: start() at a time now >= ends_at fails with GiveawayAlreadyEnded and
\* leaves message id, entrants, winners and registry unchanged; start() at a
\* time now < ends_at does not fail with GiveawayAlreadyEnded.
C2_StartOnEndedFails ==
    [][last'.op \in StartCalls =>
        IF now >= ends_at
        THEN /\ last'.result = "GiveawayAlreadyEnded"
             /\ message_id' = message_id /\ _entrants' = _entrants
             /\ _winners' = _winners /\ cache' = cache
        ELSE last'.result # "GiveawayAlreadyEnded"]_vars

\* C3: end() at a time now < starts_at fails with GiveawayNotStarted and
\* leaves entrants, winners and registry unchanged; end() at any time
\* now >= starts_at does not fail with GiveawayNotStarted.
C3_EndBeforeStartFails ==
    [][last'.op \in EndCalls =>
        IF now < starts_at
        THEN /\ last'.result = "GiveawayNotStarted"
             /\ _entrants' = _entrants /\ _winners' = _winners /\ cache' = cache
        ELSE last'.result # "GiveawayNotStarted"]_vars

\* C4: as long as end() has not run winner selection the winner list is
\* empty, whatever start(), add_entrant, remove_entrant and the waiter did.
C4_WinnersEmptyUntilSelection == ~selected => _winners = <<>>

\* C4 witness: the waiter started the giveaway, entrants joined, an end() call
\* went down the no-message path, and the winner list is still empty.
C4_Witness ==
    /\ ~selected /\ _winners = <<>>
    /\ waiter.pc = "done" /\ message_id # 1
    /\ _entrants # {}
    /\ ended_record.exists

\* C5: with the no-donor flag and no donor override, the host is never in the
\* entrant set, whatever add_entrant and remove_entrant calls were made.
C5_HostNeverEnters ==
    (flags.no_donor /\ flags.donor = NoMember) => _host \notin _entrants

\* C5 witness: the host, holding a bypass role, called add_entrant and was
\* turned away while other members are in.
C5_Witness ==
    /\ flags.no_donor /\ flags.donor = NoMember
    /\ requirements.bypass \cap MemberRoles(_host) # {}
    /\ last.op = "add_entrant" /\ last.arg = _host /\ last.result = "no_donor"
    /\ _entrants # {}

\* C6: add_entrant for an eligible candidate who is already in the entrant set
\* leaves the entrant set as it was.
C6_AddEntrantIdempotent ==
    [][(last'.op = "add_entrant" /\ last'.was /\ last'.result \in {"True", "False"})
        => _entrants' = _entrants]_vars

\* C6 witness: an eligible member who was already in has called add_entrant
\* again.
C6_Witness ==
    /\ last.op = "add_entrant" /\ last.was
    /\ last.result \in {"True", "False"}
    /\ last.arg \in _entrants

\* C7: add_entrant for an eligible candidate who is already in the entrant set
\* returns False, not True.
C7_AlreadyEnteredReturnsFalse ==
    (last.op = "add_entrant" /\ last.was /\ last.result \in {"True", "False"})
        => last.result = "False"

\* C8: when verify_entry turns the candidate away, add_entrant returns the
\* reason (it does not raise) and leaves entrants and winners unchanged; and
\* with the no-donor flag the donor is turned away with the donor reason.
C8_RejectionReturnsReason ==
    [][last'.op = "add_entrant" =>
        /\ VerifyEntry(last'.arg).kind = "reject" =>
              /\ last'.result = VerifyEntry(last'.arg).reason
              /\ last'.result \in RejectionReasons
              /\ _entrants' = _entrants /\ _winners' = _winners
        /\ (flags.no_donor /\ last'.arg = DonorOrHost) =>
              last'.result = "no_donor"]_vars

\* C8 witness: with the no-donor flag and donor D set, D called add_entrant
\* and got the donor reason.
C8_Witness ==
    /\ flags.no_donor /\ flags.donor # NoMember
    /\ last.op = "add_entrant" /\ last.arg = flags.donor
    /\ last.result = "no_donor"

\* C9: remove_entrant of a non-member returns False and changes nothing; of a
\* member it removes exactly that member and returns True.
C9_RemoveEntrantExact ==
    [][last'.op = "remove_entrant" =>
        /\ _winners' = _winners
        /\ IF last'.arg \notin _entrants
           THEN last'.result = "False" /\ _entrants' = _entrants
           ELSE last'.result = "True" /\ _entrants' = _entrants \ {last'.arg}]_vars

\* C9 witness: a member was removed and another entrant is still in.
C9_Witness ==
    /\ last.op = "remove_entrant" /\ last.was /\ last.result = "True"
    /\ last.arg \notin _entrants
    /\ _entrants # {}

C11_EmptyPoolEmptyResult ==
    (last.op = "pick_winners" /\ last.pool = <<>>) => last.val = <<>>

\* The members pick_winners drew, in order
Drawn(pool, draws) == [i \in 1..Len(draws) |-> pool[draws[i]]]

\* The drawn members that pass verify_entry, in order
Passed(pool, draws) ==
    SelectSeq(Drawn(pool, draws), LAMBDA w : VerifyEntry(w).kind = "allow")

NoRepeats(seq) == Cardinality(Range(seq)) = Len(seq)

\* C12: on a non-empty pool pick_winners makes exactly amount_of_winners
\* draws and never redraws: it returns at most amount_of_winners members, each
\* of them eligible, and without the no_multiple_winners flag exactly the
\* draws that passed verify_entry, so amount_of_winners members when none is
\* rejected; end() on a non-empty entrant set without rules or flags stores
\* exactly amount_of_winners winners taken from the entrants.
C12_PickWinnersDraws ==
    /\ [](  (last.op = "pick_winners" /\ last.result = "ok" /\ last.pool # <<>>)
             => /\ Len(last.draws) = amount_of_winners
                /\ Len(last.val) <= amount_of_winners
                /\ \A w \in Range(last.val) : VerifyEntry(w).kind = "allow"
                /\ Range(last.val) \subseteq Range(Drawn(last.pool, last.draws))
                /\ ~flags.no_multiple_winners
                     => last.val = Passed(last.pool, last.draws)
                /\ (/\ ~flags.no_multiple_winners
                    /\ \A w \in Range(last.pool) : VerifyEntry(w).kind = "allow")
                     => Len(last.val) = amount_of_winners)
    /\ [][ (/\ last'.op = "end_select"
            /\ Null(requirements)
            /\ flags = NoFlags
            /\ _entrants # {})
           => /\ Len(_winners') = amount_of_winners
              /\ Range(_winners') \subseteq _entrants ]_vars

\* pick_winners drew a rejected member and did not draw again
C12_Witness ==
    /\ last.op = "pick_winners"
    /\ last.result = "ok"
    /\ last.pool # <<>>
    /\ amount_of_winners = 2
    /\ Len(last.val) = 1
    /\ ~flags.no_multiple_winners

\* C13: with the no_multiple_winners flag the winners pick_winners returns
\* and end() stores are pairwise distinct and at most amount_of_winners, and a
\* draw of a member already chosen is skipped and not replaced by another draw.
C13_NoMultipleWinners ==
    /\ (last.op = "pick_winners" /\ last.result = "ok" /\ flags.no_multiple_winners)
         => /\ NoRepeats(last.val)
            /\ Len(last.val) <= amount_of_winners
            /\ Range(last.val) = Range(Passed(PickPool(last.pool), last.draws))
    /\ (selected /\ flags.no_multiple_winners)
         => /\ NoRepeats(_winners)
            /\ Len(_winners) <= amount_of_winners

\* two draws hit the same eligible member and one winner came out
C13_Witness ==
    /\ last.op = "pick_winners"
    /\ last.result = "ok"
    /\ flags.no_multiple_winners
    /\ Len(last.draws) = 2
    /\ last.draws[1] = last.draws[2]
    /\ Len(last.val) = 1

\* C14: reroll changes nothing but the winners of the ended giveaway: its
\* entrants, prize, schedule, rule set, flags, host, ids and reason are the
\* same after every reroll, also one that disqualifies candidates, finds no
\* entrants or cannot find the message.
C14_RerollChangesOnlyWinners ==
    [][ last'.op = "reroll"
        => /\ ended_record' = [ended_record EXCEPT !.winners = ended_record'.winners]
           /\ UNCHANGED <<starts_at, ends_at, amount_of_winners, requirements,
                          flags, _host, prize, emoji, channel_id, guild_id,
                          message_id, _entrants, _winners>> ]_vars

\* a reroll that rejected every entrant it drew and stored no winner
C14_Witness ==
    /\ last.op = "reroll"
    /\ last.result = "ok"
    /\ ended_record.entrants # {}
    /\ ended_record.winners = <<>>
    /\ _winners # <<>>

\* C15: a reroll stores at most count winners (one when count is omitted),
\* no id twice, all of them entrants, so at most as many as there are entrants.
C15_RerollWinners ==
    (last.op = "reroll" /\ last.result = "ok")
     => /\ Len(ended_record.winners) <= RerollCount(last.arg)
        /\ NoRepeats(ended_record.winners)
        /\ Range(ended_record.winners) \subseteq ended_record.entrants
        /\ Len(ended_record.winners) <= Cardinality(ended_record.entrants)

C17_EndsAfterStarts ==
    (last.op = "construct" /\ last.result = "ok") => ends_at > starts_at

\* The member would pass verify_entry if no role were required
OtherRulesPass(m) ==
    VerifyEntryOn([requirements EXCEPT !.required = {}], flags, _host,
                  has_message_cache, m).kind = "allow"

\* The no_donor flag keeps this member out
DonorExcluded(m) == flags.no_donor /\ m = DonorOrHost

\* C18: with required roles set, a member holding at least one of them and
\* failing no other rule is let in, and a member holding none of them (and no
\* bypass role) is rejected with a reason naming a required role.
C18_RequiredAnyRole ==
    [][ (/\ last'.op = "add_entrant"
         /\ requirements.required # {}
         /\ OtherRulesPass(last'.arg))
        => /\ requirements.required \cap MemberRoles(last'.arg) # {}
              => last'.result \in {"True", "False"}
           /\ (/\ requirements.required \cap MemberRoles(last'.arg) = {}
               /\ requirements.bypass \cap MemberRoles(last'.arg) = {})
              => /\ last'.result = "required"
                 /\ last'.role \in requirements.required ]_vars

C20_AmariFailures ==
    [][ ~amariUp
        => /\ (last'.op = "add_entrant" /\ requirements.amari_weekly > 0)
              => /\ last'.result = "amari_weekly"
                 /\ _entrants' = _entrants
           /\ (last'.op = "add_entrant" /\ requirements.amari_level > 0)
              => /\ last'.result = "AmariError"
                 /\ _entrants' = _entrants
           /\ (/\ last'.op = "pick_winners"
               /\ PickPool(last'.pool) # <<>>
               /\ requirements.amari_weekly > 0)
              => /\ last'.result = "ok"
                 /\ last'.val = <<>>
           /\ (/\ last'.op = "pick_winners"
               /\ PickPool(last'.pool) # <<>>
               /\ requirements.amari_level > 0)
              => /\ last'.result = "AmariError"
                 /\ _entrants' = _entrants
           /\ (/\ last'.op \in {"end", "end_select"}
               /\ endPc = "idle"
               /\ _entrants # {}
               /\ requirements.amari_level > 0)
              => /\ last'.result = "AmariError"
                 /\ UNCHANGED <<_entrants, _winners, selected>> ]_vars

\* Amari was down when a holder of the level asked to enter
C20_Witness ==
    /\ last.op = "add_entrant"
    /\ last.result = "AmariError"
    /\ AmariLevelOf(last.arg) >= requirements.amari_level
    /\ ~amariUp

\* C21: a giveaway constructed with a future starts_at gets one waiter, kept
\* in the task list; the waiter does not call start() while now < starts_at,
\* calls it once when now >= starts_at and is then finished; a giveaway whose
\* starts_at is not in the future gets no waiter.
C21_WaiterStartsOnce ==
    /\ (starts_at > now) <=> (waiter.pc = "run" /\ Tracked)
    /\ (starts_at > now) \/ waiter.pc = "none"
    /\ [][ last'.op = "waiter_start"
           => /\ now >= starts_at
              /\ waiter.pc \in {"run", "sleep"}
              /\ waiter'.pc = "done" ]_vars
    /\ [][ waiter.pc \in {"done", "none"} => waiter'.pc = waiter.pc ]_vars
    /\ [][ Tracked => Tracked' ]_vars
    /\ (waiter.pc = "run") ~> (waiter.pc = "done")

\* the waiter slept once, woke and called start()
C21_Witness ==
    /\ last.op = "waiter_start"
    /\ waiter.pc = "done"
    /\ now >= SleepInterval

\* C22: with winner DMs on, end() tries a DM for every distinct winner even
\* when the DM to one of them fails, tries the host's DM when host DMs are on,
\* and then returns the EndedGiveaway with the winners set.
C22_DmFailuresIsolated ==
    /\ [](  (last.op = "end_dm" /\ last.winnerdm /\ _winners # <<>>)
             => /\ last.attempted = Range(_winners)
                /\ last.hostdm => last.host_dm)
    /\ [][ (endPc = "dms" /\ last'.op = "end")
           => /\ last'.result = "EndedGiveaway"
              /\ ended_record'.winners = _winners ]_vars

\* C23: every winner in the EndedGiveaway end() returns is one of its
\* entrants, and every one of its entrants was in the list the winners were
\* drawn from, also when add_entrant and remove_entrant run between the draw
\* and the snapshot.
C23_WinnersAmongSnapshotEntrants ==
    (ended_record.exists /\ selected)
     => /\ Range(ended_record.winners) \subseteq ended_record.entrants
        /\ ended_record.entrants \subseteq Range(drawPool)

\* C24: a reroll of an ended giveaway whose rules hold a message minimum does
\* not raise: each drawn member (holding no bypass role) is checked against
\* the minimum and skipped when below it.
C24_RerollWithMessagesRule ==
    (last.op = "reroll" /\ ended_record.requirements.messages # 0)
     => last.result \in {"ok", "no_entrants", "no_message", "GiveawayError"}
====
